---- MODULE Spec2Model ----
(***************************************************************************)
(* flashtext2-rs: a keyword processor that stores keywords in a trie keyed *)
(* by text tokens and extracts / replaces them in one scan of the text.    *)
(*                                                                         *)
(* A string is a sequence of one-character strings; the alphabets used     *)
(* here are ASCII, so one character is one byte and a byte offset is a     *)
(* 0-based character index.  Option<T> is None == <<>> or Some(x) == <<x>>.*)
(* A trie node is identified by the sequence of keys on the path from the  *)
(* root; the trie is the function from its nodes to their clean_word.      *)
(***************************************************************************)
EXTENDS Integers, Sequences, FiniteSets, TLC

VARIABLES
    case_sensitive,       \* KeywordProcessor.case_sensitive
    trie,                 \* KeywordProcessor.trie: node path -> clean_word
    len,                  \* KeywordProcessor.len
    overwrote,            \* history: the most recent insertion found its keyword present
    supplied,             \* history: node path -> the clean word last supplied for it
    inserted_by,          \* history: the operation that inserted most recently
    pc,                   \* the caller's position: idle, ready, loop, replaced
    text,                 \* the text handed to the running call
    tokens,               \* KeywordExtractor.tokens
    idx,                  \* KeywordExtractor.idx
    node,                 \* next(): local `node`
    longest_sequence,     \* next(): local `longest_sequence`
    traversal_start_idx,  \* next(): local `traversal_start_idx`
    call_idx,             \* history: the value of idx when the running call began
    out,                  \* the items next() returned Some(..) for, in order
    done,                 \* a call of next() has returned None
    replaced,             \* the return value of replace_keywords
    other                 \* a second KeywordExtractor borrowing the same trie

vars == <<case_sensitive, trie, len, overwrote, supplied, inserted_by, pc, text, tokens, idx, node,
          longest_sequence, traversal_start_idx, call_idx, out, done, replaced,
          other>>

processor == <<case_sensitive, trie, len>>
history == <<overwrote, supplied, inserted_by>>
extractor == <<tokens, idx, node, longest_sequence, traversal_start_idx,
               call_idx, out, done>>

----------------------------------------------------------------------------
\* Bounds of the exploration.

\* longest text, in characters, drawn from Alphabet
MaxTextLen == 3
\* most keywords a processor holds (re-insertions are not limited)
MaxKeywords == 2
\* the same, for the processors built from the documented examples
MaxExampleKeywords == 3

----------------------------------------------------------------------------
\* Strings and options.

None == <<>>
Some(x) == <<x>>
IsSome(o) == o # None
Unwrap(o) == o[1]

\* a letter and a punctuation mark: the tokens are runs of a's and single !'s
Alphabet == {"a", "!"}

RECURSIVE StringsUpTo(_, _)
StringsUpTo(chars, n) ==
    IF n = 0 THEN {<<>>}
    ELSE LET shorter == StringsUpTo(chars, n - 1)
         IN  shorter \cup {Append(s, c) : s \in shorter, c \in chars}

Texts == StringsUpTo(Alphabet, MaxTextLen)

\* the keywords offered to the insertions: nested token paths, a punctuation
\* token and the empty keyword
Words == {<<>>, <<"a">>, <<"!">>, <<"a", "!">>, <<"a", "!", "a">>}

\* the clean words offered to add_keyword_with_clean_word
CleanWords == {<<>>, <<"a", "a">>}

\* the iterables offered to the bulk insertions: up to two elements, a
\* keyword twice among them
WordLists == {<<>>} \cup {<<v>> : v \in Words} \cup {<<v, w>> : v \in Words, w \in Words}
Pairs == {<<"a">>, <<"a", "!">>} \X CleanWords
PairLists == {<<>>} \cup {<<e>> : e \in Pairs} \cup {<<e, f>> : e \in Pairs, f \in Pairs}

\* The strings of the documented examples (crate doc, tests::extractor).
hello == <<"h", "e", "l", "l", "o">>
world == <<"w", "o", "r", "l", "d">>
hello_world == hello \o <<" ">> \o world
hello_world_bang == hello_world \o <<"!">>
hello_hello_world == hello \o <<" ">> \o hello_world
love == <<"l", "o", "v", "e">>
like == <<"l", "i", "k", "e">>
Rust == <<"R", "u", "s", "t">>
Java == <<"J", "a", "v", "a">>
I_love_Rust == <<"I", " ">> \o love \o <<" ">> \o Rust
I_like_Java == <<"I", " ">> \o like \o <<" ">> \o Java

ExampleWords == {hello, world, hello_world, hello_world_bang}
ExamplePairs == {<<love, like>>, <<Rust, Java>>}
ExampleTexts == {hello_world, hello_hello_world, hello_world_bang, I_love_Rust,
                 I_like_Java}

\* The strings of the casing examples (crate doc, tests::test_len).
hey == <<"h", "e", "y">>
HEY == <<"H", "E", "Y">>
RUST == <<"R", "U", "S", "T">>
i_love_RUST == <<"i", " ">> \o love \o <<" ">> \o RUST

CaseWords == {hey, HEY, Rust}
CasePairs == {<<HEY, hey>>, <<Rust, Java>>}
CaseTexts == {hey, HEY, i_love_RUST, I_love_Rust}

\* keywords and texts in which a failed chain overlaps other keywords
ChainWords == {<<"!", "!", "a", "!">>, <<"!", "a">>, <<"a", "!", "!", "a">>}
ChainTexts == {<<"!", "!", "!", "a">>, <<"!", "!", "a", "!">>, <<"a", "!", "!", "!", "a">>}

\* the texts two extractors run over side by side
ConcurrentTexts == {<<"a", "!">>, <<"a", "!", "!">>, <<"a", "!", "a">>, <<"!", "a", "!">>}

----------------------------------------------------------------------------
\* Tokenizer: unicode_segmentation's split_word_bound_indices (UAX #29), for
\* the character classes of the alphabets used here: letters join into one
\* word, spaces join into one run, any other character is a token of its own.

IsSpace(c) == c = " "
IsOther(c) == c \in {"!", ","}
IsLetter(c) == ~IsSpace(c) /\ ~IsOther(c)

Joins(x, y) == (IsLetter(x) /\ IsLetter(y)) \/ (IsSpace(x) /\ IsSpace(y))

\* last position (1-based) of the token that starts at position i
RECURSIVE TokenEnd(_, _)
TokenEnd(s, i) ==
    IF i < Len(s) /\ Joins(s[i], s[i + 1]) THEN TokenEnd(s, i + 1) ELSE i

RECURSIVE SplitFrom(_, _)
SplitFrom(s, i) ==
    IF i > Len(s) THEN <<>>
    ELSE LET j == TokenEnd(s, i)
         IN  <<[offset |-> i - 1, token |-> SubSeq(s, i, j)]>> \o SplitFrom(s, j + 1)

split_word_bound_indices(s) == SplitFrom(s, 1)

split_word_bounds(s) ==
    LET ts == split_word_bound_indices(s) IN [i \in 1..Len(ts) |-> ts[i].token]

\* text[from..to] with byte offsets
Slice(s, from, to) == SubSeq(s, from + 1, to)

----------------------------------------------------------------------------
\* Key policy of the children maps: exact, or equal under case folding.

UpperChars == <<"A", "E", "H", "I", "J", "R", "S", "T", "U", "Y">>
LowerChars == <<"a", "e", "h", "i", "j", "r", "s", "t", "u", "y">>

Fold(c) ==
    IF \E i \in 1..Len(UpperChars) : UpperChars[i] = c
    THEN LowerChars[CHOOSE i \in 1..Len(UpperChars) : UpperChars[i] = c]
    ELSE c

FoldStr(s) == [i \in 1..Len(s) |-> Fold(s[i])]

\* a slip in the map: the keys are compared exactly whatever the policy
Key_Exact(cs, token) == token

Key(cs, token) == IF cs THEN token ELSE FoldStr(token)

\* a slip in the walk: the tokens are folded whatever the policy
PathOf_AlwaysFolds(cs, word) ==
    LET ts == split_word_bounds(word) IN [i \in 1..Len(ts) |-> FoldStr(ts[i])]

\* the node path a word's tokens lead to
PathOf(cs, word) ==
    LET ts == split_word_bounds(word) IN [i \in 1..Len(ts) |-> Key(cs, ts[i])]

Prefixes(p) == {SubSeq(p, 1, k) : k \in 0..Len(p)}

----------------------------------------------------------------------------
\* KeywordProcessor

Root == <<>>

HasChild(t, n, key) == Append(n, key) \in DOMAIN t

Terminals(t) == {p \in DOMAIN t : IsSome(t[p])}

is_empty == len = 0

\* a slip in the last line: the clean_word of every other node is cleared
InsertedTrie_ForgetsOthers(t, path, clean_word) ==
    [p \in DOMAIN t \cup Prefixes(path) |->
        IF p = path THEN Some(clean_word) ELSE None]

\* a slip in the walk: every node on the way gets the clean_word
InsertedTrie_MarksPrefixes(t, path, clean_word) ==
    [p \in DOMAIN t \cup Prefixes(path) |->
        IF p \in Prefixes(path) /\ p # Root THEN Some(clean_word)
        ELSE IF p = path THEN Some(clean_word)
        ELSE IF p \in DOMAIN t THEN t[p] ELSE None]

\* a slip in the last line: a clean_word already present is kept
InsertedTrie_KeepsFirst(t, path, clean_word) ==
    [p \in DOMAIN t \cup Prefixes(path) |->
        IF p \in DOMAIN t /\ IsSome(t[p]) THEN t[p]
        ELSE IF p = path THEN Some(clean_word) ELSE None]

\* the trie after `for token in split_word_bounds(word) { entry(token).or_insert_with(Node::new) }`
\* and `trie.clean_word = Some(clean_word)`
InsertedTrie(t, path, clean_word) ==
    [p \in DOMAIN t \cup Prefixes(path) |->
        IF p = path THEN Some(clean_word)
        ELSE IF p \in DOMAIN t THEN t[p] ELSE None]

\* a slip in the count: every insertion is counted
InsertedLen_CountsEvery(t, n, path) == n + 1

\* `if trie.clean_word.is_none() { self.len += 1 }`
InsertedLen(t, n, path) ==
    IF path \in DOMAIN t /\ IsSome(t[path]) THEN n ELSE n + 1

\* the insertions the exploration allows: a new keyword while fewer than
\* MaxKeywords are held, a re-insertion always
MayInsert(limit, word) ==
    \/ len < limit
    \/ PathOf(case_sensitive, word) \in Terminals(trie)

Idle ==
    /\ pc = "idle"
    /\ other.pc = "idle"

add_keyword_with_clean_word(word, clean_word) ==
    LET path == PathOf(case_sensitive, word) IN
    /\ Idle
    /\ trie' = InsertedTrie(trie, path, clean_word)
    /\ len' = InsertedLen(trie, len, path)
    /\ overwrote' = (path \in Terminals(trie))
    /\ supplied' = [p \in DOMAIN supplied \cup {path} |->
                        IF p = path THEN clean_word ELSE supplied[p]]
    /\ inserted_by' = "add_keyword_with_clean_word"
    /\ UNCHANGED <<case_sensitive, pc, text, extractor, replaced, other>>

add_keyword(word) == add_keyword_with_clean_word(word, word)

\* the processor, with its history, as a value
Processor ==
    [trie |-> trie, len |-> len, overwrote |-> overwrote, supplied |-> supplied]

\* KeywordProcessor::new(), as a value
NewProcessor ==
    [trie |-> (Root :> None), len |-> 0, overwrote |-> FALSE, supplied |-> <<>>]

\* the processor kp after add_keyword_with_clean_word(word, clean_word)
Added(cs, kp, word, clean_word) ==
    LET path == PathOf(cs, word) IN
    [trie |-> InsertedTrie(kp.trie, path, clean_word),
     len |-> InsertedLen(kp.trie, kp.len, path),
     overwrote |-> (path \in Terminals(kp.trie)),
     supplied |-> [p \in DOMAIN kp.supplied \cup {path} |->
                     IF p = path THEN clean_word ELSE kp.supplied[p]]]

\* the processor kp after add_keyword(word)
AddedKeyword(cs, kp, word) == Added(cs, kp, word, word)

\* `for word in iter { self.add_keyword(word); }` from the k-th element on
RECURSIVE ForEachWord(_, _, _, _)
ForEachWord(cs, kp, iter, k) ==
    IF k > Len(iter) THEN kp
    ELSE ForEachWord(cs, AddedKeyword(cs, kp, iter[k]), iter, k + 1)

\* a slip in the loop: the elements are taken from the back
RECURSIVE ForEachPair_FromTheBack(_, _, _, _)
ForEachPair_FromTheBack(cs, kp, iter, k) ==
    IF k > Len(iter) THEN kp
    ELSE LET e == iter[Len(iter) + 1 - k]
         IN  ForEachPair_FromTheBack(cs, Added(cs, kp, e[1], e[2]), iter, k + 1)

\* `for (word, clean_word) in iter { self.add_keyword_with_clean_word(word, clean_word); }`
\* from the k-th element on
RECURSIVE ForEachPair(_, _, _, _)
ForEachPair(cs, kp, iter, k) ==
    IF k > Len(iter) THEN kp
    ELSE ForEachPair(cs, Added(cs, kp, iter[k][1], iter[k][2]), iter, k + 1)

\* the processor becomes kp
Becomes(kp) ==
    /\ trie' = kp.trie
    /\ len' = kp.len
    /\ overwrote' = kp.overwrote
    /\ supplied' = kp.supplied

add_keywords_from_iter(iter) ==
    /\ Idle
    /\ Becomes(ForEachWord(case_sensitive, Processor, iter, 1))
    /\ inserted_by' = "add_keywords_from_iter"
    /\ UNCHANGED <<case_sensitive, pc, text, extractor, replaced, other>>

add_keywords_with_clean_word_from_iter(iter) ==
    /\ Idle
    /\ Becomes(ForEachPair(case_sensitive, Processor, iter, 1))
    /\ inserted_by' = "add_keywords_with_clean_word_from_iter"
    /\ UNCHANGED <<case_sensitive, pc, text, extractor, replaced, other>>

\* the bulk insertions the exploration allows: those that leave the processor
\* with at most `limit` keywords, or with as many as it had
MayHold(limit, kp) == kp.len <= limit \/ kp.len = len

----------------------------------------------------------------------------
\* KeywordExtractor

\* KeywordExtractor::new, as extract_keywords_with_span returns it
extract_keywords_with_span(t) ==
    /\ Idle
    /\ pc' = "ready"
    /\ text' = t
    /\ tokens' = split_word_bound_indices(t)
    /\ idx' = 0
    /\ out' = <<>>
    /\ done' = FALSE
    /\ UNCHANGED <<processor, history, other, node, longest_sequence,
                   traversal_start_idx, call_idx, replaced>>

\* the locals of next() at its first line, for a call that finds self.idx = i
Enter(i) ==
    [idx |-> i, node |-> Root, longest_sequence |-> None,
     traversal_start_idx |-> i, returned |-> FALSE, value |-> None]

\* a slip in the span: it starts at the current token, not where the walk began
Item_StartAtCurrentToken(clean_word, toks, start_idx, tok) ==
    [clean_word |-> clean_word,
     start |-> tok.offset,
     end |-> tok.offset + Len(tok.token)]

\* a slip in the span: it ends where the current token starts
Item_EndAtTokenStart(clean_word, toks, start_idx, tok) ==
    [clean_word |-> clean_word,
     start |-> toks[start_idx + 1].offset,
     end |-> tok.offset]

\* the item built when the walk reaches a terminal node: (clean_word,
\* tokens[traversal_start_idx].0, token_start_idx + token.len())
Item(clean_word, toks, start_idx, tok) ==
    [clean_word |-> clean_word,
     start |-> toks[start_idx + 1].offset,
     end |-> tok.offset + Len(tok.token)]

\* a slip in the rollback: after a match the scan resumes right after the
\* token the walk began at
LoopBody_ResumesAfterStart(cs, t, toks, s) ==
    LET tok == toks[s.idx + 1]
        key == Key(cs, tok.token)
        child == Append(s.node, key)
    IN  IF HasChild(t, s.node, key)
        THEN [s EXCEPT
                !.idx = s.idx + 1,
                !.node = child,
                !.longest_sequence =
                    IF IsSome(t[child])
                    THEN Some(Item(Unwrap(t[child]), toks, s.traversal_start_idx, tok))
                    ELSE s.longest_sequence]
        ELSE IF IsSome(s.longest_sequence)
        THEN [s EXCEPT
                !.idx = s.traversal_start_idx + 1,
                !.returned = TRUE,
                !.value = s.longest_sequence]
        ELSE [s EXCEPT
                !.idx = s.traversal_start_idx + 1,
                !.node = Root,
                !.traversal_start_idx = s.traversal_start_idx + 1]

\* a slip in the walk: the first terminal node found is kept, a later one ignored
LoopBody_FirstMatchWins(cs, t, toks, s) ==
    LET tok == toks[s.idx + 1]
        key == Key(cs, tok.token)
        child == Append(s.node, key)
    IN  IF HasChild(t, s.node, key)
        THEN [s EXCEPT
                !.idx = s.idx + 1,
                !.node = child,
                !.longest_sequence =
                    IF IsSome(t[child]) /\ ~IsSome(s.longest_sequence)
                    THEN Some(Item(Unwrap(t[child]), toks, s.traversal_start_idx, tok))
                    ELSE s.longest_sequence]
        ELSE IF IsSome(s.longest_sequence)
        THEN [s EXCEPT
                !.idx = (s.idx + 1) - 1,
                !.returned = TRUE,
                !.value = s.longest_sequence]
        ELSE [s EXCEPT
                !.idx = s.traversal_start_idx + 1,
                !.node = Root,
                !.traversal_start_idx = s.traversal_start_idx + 1]

\* one iteration of `while self.idx < self.tokens.len()`
LoopBody(cs, t, toks, s) ==
    LET tok == toks[s.idx + 1]
        key == Key(cs, tok.token)
        child == Append(s.node, key)
    IN  IF HasChild(t, s.node, key)
        THEN [s EXCEPT
                !.idx = s.idx + 1,
                !.node = child,
                !.longest_sequence =
                    IF IsSome(t[child])
                    THEN Some(Item(Unwrap(t[child]), toks, s.traversal_start_idx, tok))
                    ELSE s.longest_sequence]
        ELSE IF IsSome(s.longest_sequence)
        THEN [s EXCEPT
                !.idx = (s.idx + 1) - 1,
                !.returned = TRUE,
                !.value = s.longest_sequence]
        ELSE [s EXCEPT
                !.idx = s.traversal_start_idx + 1,
                !.node = Root,
                !.traversal_start_idx = s.traversal_start_idx + 1]

\* the fall-through after the loop: `longest_sequence`
LoopExit(s) == [s EXCEPT !.returned = TRUE, !.value = s.longest_sequence]

\* a whole call of next(), from the locals s to its return
RECURSIVE RunNext(_, _, _, _)
RunNext(cs, t, toks, s) ==
    IF s.returned THEN s
    ELSE IF s.idx < Len(toks) THEN RunNext(cs, t, toks, LoopBody(cs, t, toks, s))
    ELSE LoopExit(s)

\* the items a `for` loop (or collect) receives from an extractor whose idx is i
RECURSIVE Collect(_, _, _, _)
Collect(cs, t, toks, i) ==
    LET r == RunNext(cs, t, toks, Enter(i))
    IN  IF IsSome(r.value)
        THEN <<Unwrap(r.value)>> \o Collect(cs, t, toks, r.idx)
        ELSE <<>>

\* extract_keywords_with_span(text).collect()
ExtractAll(cs, t, s) == Collect(cs, t, split_word_bound_indices(s), 0)

\* extract_keywords(text).collect(): the same extractor, mapped to the keyword
extract_keywords(cs, t, s) ==
    LET items == ExtractAll(cs, t, s) IN [i \in 1..Len(items) |-> items[i].clean_word]

Locals ==
    [idx |-> idx, node |-> node, longest_sequence |-> longest_sequence,
     traversal_start_idx |-> traversal_start_idx, returned |-> FALSE, value |-> None]

\* size_hint(): (0, Some(self.tokens.len()))
size_hint == <<0, Some(Len(tokens))>>

\* a slip in the rollback: a call that returns a match leaves idx where the
\* attempt began
Return_RollsBackToStart(s) ==
    /\ pc' = "ready"
    /\ idx' = IF IsSome(s.value) THEN s.traversal_start_idx ELSE s.idx
    /\ node' = Root
    /\ longest_sequence' = None
    /\ traversal_start_idx' = 0
    /\ out' = IF IsSome(s.value) THEN Append(out, Unwrap(s.value)) ELSE out
    /\ done' = (done \/ ~IsSome(s.value))

\* next() hands its value to the caller: the locals are gone
Return(s) ==
    /\ pc' = "ready"
    /\ idx' = s.idx
    /\ node' = Root
    /\ longest_sequence' = None
    /\ traversal_start_idx' = 0
    /\ out' = IF IsSome(s.value) THEN Append(out, Unwrap(s.value)) ELSE out
    /\ done' = (done \/ ~IsSome(s.value))

\* a slip at the entry: a call that finds the tokens used up starts over
NextCall_Rewinds ==
    /\ pc = "ready"
    /\ pc' = "loop"
    /\ node' = Root
    /\ longest_sequence' = None
    /\ idx' = IF idx = Len(tokens) THEN 0 ELSE idx
    /\ traversal_start_idx' = idx'
    /\ call_idx' = idx'
    /\ UNCHANGED <<processor, history, other, text, tokens, out, done, replaced>>

\* next(): the three lines before the loop
NextCall ==
    /\ pc = "ready"
    /\ pc' = "loop"
    /\ node' = Root
    /\ longest_sequence' = None
    /\ traversal_start_idx' = idx
    /\ call_idx' = idx
    /\ UNCHANGED <<processor, history, other, text, tokens, idx, out, done, replaced>>

\* a slip in the restart: after a dead end the scan starts again at the token
\* the failed attempt began at
NextLoop_RestartsInPlace ==
    /\ pc = "loop"
    /\ idx < Len(tokens)
    /\ LET s == LoopBody(case_sensitive, trie, tokens, Locals)
       IN  IF s.returned
           THEN Return(s)
           ELSE /\ idx' = IF s.traversal_start_idx = traversal_start_idx
                          THEN s.idx ELSE traversal_start_idx
                /\ node' = s.node
                /\ longest_sequence' = s.longest_sequence
                /\ traversal_start_idx' = traversal_start_idx
                /\ UNCHANGED <<pc, out, done>>
    /\ UNCHANGED <<processor, history, other, text, tokens, call_idx, replaced>>

\* a slip in the lookup: children.entry(token).or_default() in the place of
\* children.get(token) adds a node for a token that has no child
NextLoop_InsertsChild ==
    /\ pc = "loop"
    /\ idx < Len(tokens)
    /\ LET s == LoopBody(case_sensitive, trie, tokens, Locals)
           c == Append(node, Key(case_sensitive, tokens[idx + 1].token))
       IN  /\ IF s.returned
              THEN Return(s)
              ELSE /\ idx' = s.idx
                   /\ node' = s.node
                   /\ longest_sequence' = s.longest_sequence
                   /\ traversal_start_idx' = s.traversal_start_idx
                   /\ UNCHANGED <<pc, out, done>>
           /\ trie' = [p \in DOMAIN trie \cup {c} |-> IF p \in DOMAIN trie THEN trie[p] ELSE None]
    /\ UNCHANGED <<case_sensitive, len, history, other, text, tokens, call_idx, replaced>>

\* next(): one iteration of the loop, returning from inside it when the chain
\* breaks after a match
NextLoop ==
    /\ pc = "loop"
    /\ idx < Len(tokens)
    /\ LET s == LoopBody(case_sensitive, trie, tokens, Locals)
       IN  IF s.returned
           THEN Return(s)
           ELSE /\ idx' = s.idx
                /\ node' = s.node
                /\ longest_sequence' = s.longest_sequence
                /\ traversal_start_idx' = s.traversal_start_idx
                /\ UNCHANGED <<pc, out, done>>
    /\ UNCHANGED <<processor, history, other, text, tokens, call_idx, replaced>>

\* next(): the loop condition fails, the call returns longest_sequence
NextReturn ==
    /\ pc = "loop"
    /\ ~(idx < Len(tokens))
    /\ Return(LoopExit(Locals))
    /\ UNCHANGED <<processor, history, other, text, tokens, call_idx, replaced>>

----------------------------------------------------------------------------
\* replace_keywords

\* a slip in the loop: prev_end = start
RECURSIVE ReplaceLoop_PrevEndIsStart(_, _, _, _, _)
ReplaceLoop_PrevEndIsStart(s, items, k, prev_end, string) ==
    IF k > Len(items)
    THEN string \o Slice(s, prev_end, Len(s))
    ELSE ReplaceLoop_PrevEndIsStart(s, items, k + 1, items[k].start,
                     (string \o Slice(s, prev_end, items[k].start)) \o items[k].clean_word)

\* a slip in the slice: the text up to the end of the match is copied before
\* the keyword
RECURSIVE ReplaceLoop_SliceToEnd(_, _, _, _, _)
ReplaceLoop_SliceToEnd(s, items, k, prev_end, string) ==
    IF k > Len(items)
    THEN string \o Slice(s, prev_end, Len(s))
    ELSE ReplaceLoop_SliceToEnd(s, items, k + 1, items[k].end,
                     (string \o Slice(s, prev_end, items[k].end)) \o items[k].clean_word)

\* a slip after the loop: the text after the last match is not appended
RECURSIVE ReplaceLoop_DropsTail(_, _, _, _, _)
ReplaceLoop_DropsTail(s, items, k, prev_end, string) ==
    IF k > Len(items)
    THEN string
    ELSE ReplaceLoop_DropsTail(s, items, k + 1, items[k].end,
                     (string \o Slice(s, prev_end, items[k].start)) \o items[k].clean_word)

\* the `for (keyword, start, end) in ...` loop from its k-th item on
RECURSIVE ReplaceLoop(_, _, _, _, _)
ReplaceLoop(s, items, k, prev_end, string) ==
    IF k > Len(items)
    THEN string \o Slice(s, prev_end, Len(s))
    ELSE ReplaceLoop(s, items, k + 1, items[k].end,
                     (string \o Slice(s, prev_end, items[k].start)) \o items[k].clean_word)

ReplaceKeywords(cs, t, s) == ReplaceLoop(s, ExtractAll(cs, t, s), 1, 0, <<>>)

replace_keywords(t) ==
    /\ Idle
    /\ pc' = "replaced"
    /\ text' = t
    /\ replaced' = Some(ReplaceKeywords(case_sensitive, trie, t))
    /\ UNCHANGED <<processor, history, other, extractor>>

\* the caller lets go of the extractor, or of the replaced string
Drop ==
    /\ pc \in {"ready", "replaced"}
    /\ pc' = "idle"
    /\ text' = <<>>
    /\ tokens' = <<>>
    /\ idx' = 0
    /\ call_idx' = 0
    /\ out' = <<>>
    /\ done' = FALSE
    /\ replaced' = None
    /\ UNCHANGED <<processor, history, other, node, longest_sequence, traversal_start_idx>>

----------------------------------------------------------------------------
\* A second extractor over the same trie, alive together with the first.

NoExtractor ==
    [pc |-> "idle", text |-> <<>>, tokens |-> <<>>, idx |-> 0, node |-> Root,
     longest_sequence |-> None, traversal_start_idx |-> 0, out |-> <<>>, done |-> FALSE]

\* a slip in the constructor: the token buffer of the first extractor is used
OtherNew_SharesTokens(t) ==
    /\ pc \in {"ready", "loop"}
    /\ other.pc = "idle"
    /\ other' = [NoExtractor EXCEPT !.pc = "ready", !.text = t, !.tokens = tokens]
    /\ UNCHANGED <<processor, history, pc, text, extractor, replaced>>

\* KeywordExtractor::new for the second extractor
OtherNew(t) ==
    /\ pc \in {"ready", "loop"}
    /\ other.pc = "idle"
    /\ other' = [NoExtractor EXCEPT !.pc = "ready", !.text = t,
                                    !.tokens = split_word_bound_indices(t)]
    /\ UNCHANGED <<processor, history, pc, text, extractor, replaced>>

OtherLocals ==
    [idx |-> other.idx, node |-> other.node, longest_sequence |-> other.longest_sequence,
     traversal_start_idx |-> other.traversal_start_idx, returned |-> FALSE, value |-> None]

OtherReturn(s) ==
    [other EXCEPT
        !.pc = "ready",
        !.idx = s.idx,
        !.node = Root,
        !.longest_sequence = None,
        !.traversal_start_idx = 0,
        !.out = IF IsSome(s.value) THEN Append(@, Unwrap(s.value)) ELSE @,
        !.done = (@ \/ ~IsSome(s.value))]

OtherNextCall ==
    /\ other.pc = "ready"
    /\ other' = [other EXCEPT !.pc = "loop", !.node = Root, !.longest_sequence = None,
                              !.traversal_start_idx = other.idx]
    /\ UNCHANGED <<processor, history, pc, text, extractor, replaced>>

OtherNextLoop ==
    /\ other.pc = "loop"
    /\ other.idx < Len(other.tokens)
    /\ LET s == LoopBody(case_sensitive, trie, other.tokens, OtherLocals)
       IN  other' = IF s.returned
                    THEN OtherReturn(s)
                    ELSE [other EXCEPT !.idx = s.idx, !.node = s.node,
                                       !.longest_sequence = s.longest_sequence,
                                       !.traversal_start_idx = s.traversal_start_idx]
    /\ UNCHANGED <<processor, history, pc, text, extractor, replaced>>

OtherNextReturn ==
    /\ other.pc = "loop"
    /\ ~(other.idx < Len(other.tokens))
    /\ other' = OtherReturn(LoopExit(OtherLocals))
    /\ UNCHANGED <<processor, history, pc, text, extractor, replaced>>

OtherDrop ==
    /\ other.pc = "ready"
    /\ other' = NoExtractor
    /\ UNCHANGED <<processor, history, pc, text, extractor, replaced>>

----------------------------------------------------------------------------
Init ==
    /\ case_sensitive \in BOOLEAN
    /\ trie = (Root :> None)
    /\ len = 0
    /\ overwrote = FALSE
    /\ supplied = <<>>
    /\ inserted_by = "new"
    /\ pc = "idle"
    /\ text = <<>>
    /\ tokens = <<>>
    /\ idx = 0
    /\ node = Root
    /\ longest_sequence = None
    /\ traversal_start_idx = 0
    /\ call_idx = 0
    /\ out = <<>>
    /\ done = FALSE
    /\ replaced = None
    /\ other = NoExtractor

Next ==
    \/ \E w \in Words : MayInsert(MaxKeywords, w) /\ add_keyword(w)
    \/ \E w \in Words, c \in CleanWords :
          MayInsert(MaxKeywords, w) /\ add_keyword_with_clean_word(w, c)
    \/ \E t \in Texts : extract_keywords_with_span(t)
    \/ NextCall
    \/ NextLoop
    \/ NextReturn
    \/ \E t \in Texts : replace_keywords(t)
    \/ Drop

Spec == Init /\ [][Next]_vars

\* The extractions alone, over processors built by add_keyword.  A call of
\* next() runs on: its loop iterates while it can, and the call returns when
\* the loop is left.
FairNext ==
    \/ \E w \in Words : MayInsert(MaxKeywords, w) /\ add_keyword(w)
    \/ \E t \in Texts : extract_keywords_with_span(t)
    \/ NextCall
    \/ NextLoop
    \/ NextReturn
    \/ Drop

FairSpec == Init /\ [][FairNext]_vars /\ WF_vars(NextLoop) /\ WF_vars(NextReturn)

\* The insertions, one keyword at a time and in bulk.
BulkNext ==
    \/ \E w \in Words : MayInsert(MaxKeywords, w) /\ add_keyword(w)
    \/ \E w \in Words, c \in CleanWords :
          MayInsert(MaxKeywords, w) /\ add_keyword_with_clean_word(w, c)
    \/ \E ws \in WordLists :
          /\ MayHold(MaxKeywords, ForEachWord(case_sensitive, Processor, ws, 1))
          /\ add_keywords_from_iter(ws)
    \/ \E ps \in PairLists :
          /\ MayHold(MaxKeywords, ForEachPair(case_sensitive, Processor, ps, 1))
          /\ add_keywords_with_clean_word_from_iter(ps)

BulkSpec == Init /\ [][BulkNext]_vars

\* The same program, fed the keywords and texts of the documented examples.
ExampleNext ==
    \/ \E w \in ExampleWords : MayInsert(MaxExampleKeywords, w) /\ add_keyword(w)
    \/ \E wc \in ExamplePairs :
          MayInsert(MaxExampleKeywords, wc[1]) /\ add_keyword_with_clean_word(wc[1], wc[2])
    \/ \E t \in ExampleTexts : extract_keywords_with_span(t)
    \/ NextCall
    \/ NextLoop
    \/ NextReturn
    \/ \E t \in ExampleTexts : replace_keywords(t)
    \/ Drop

ExampleSpec == Init /\ [][ExampleNext]_vars

\* The same program, fed keywords and texts that differ in letter case.
CaseNext ==
    \/ \E w \in CaseWords : MayInsert(MaxExampleKeywords, w) /\ add_keyword(w)
    \/ \E wc \in CasePairs :
          MayInsert(MaxExampleKeywords, wc[1]) /\ add_keyword_with_clean_word(wc[1], wc[2])
    \/ \E t \in CaseTexts : extract_keywords_with_span(t)
    \/ NextCall
    \/ NextLoop
    \/ NextReturn
    \/ \E t \in CaseTexts : replace_keywords(t)
    \/ Drop

CaseSpec == Init /\ [][CaseNext]_vars

\* The same program, fed keywords whose chains overlap in the text.
ChainNext ==
    \/ \E w \in ChainWords : MayInsert(MaxExampleKeywords, w) /\ add_keyword(w)
    \/ \E t \in ChainTexts : extract_keywords_with_span(t)
    \/ NextCall
    \/ NextLoop
    \/ NextReturn
    \/ Drop

ChainSpec == Init /\ [][ChainNext]_vars

\* Two extractors over one trie; the caller interleaves their next() steps.
\* No insertion runs while either is alive (Idle).
ConcurrentNext ==
    \/ \E w \in Words : MayInsert(MaxKeywords, w) /\ add_keyword(w)
    \/ \E t \in ConcurrentTexts : extract_keywords_with_span(t)
    \/ NextCall
    \/ NextLoop
    \/ NextReturn
    \/ Drop
    \/ \E t \in ConcurrentTexts : OtherNew(t)
    \/ OtherNextCall
    \/ OtherNextLoop
    \/ OtherNextReturn
    \/ OtherDrop

ConcurrentSpec == Init /\ [][ConcurrentNext]_vars

----------------------------------------------------------------------------
\* Vocabulary of the properties.

\* byte end of a token
TokEnd(tok) == tok.offset + Len(tok.token)

\* the keyword path occupies the tokens p+1 .. p+Len(path) (p counts from 0)
OccursAt(cs, toks, p, path) ==
    /\ Len(path) >= 1
    /\ p + Len(path) <= Len(toks)
    /\ \A i \in 1..Len(path) : Key(cs, toks[p + i].token) = path[i]

KeywordsAt(cs, t, toks, p) == {path \in Terminals(t) : OccursAt(cs, toks, p, path)}

LongestOf(paths) == CHOOSE x \in paths : \A y \in paths : Len(y) <= Len(x)

\* the match of the keyword path at token position p
MatchOf(t, toks, p, path) ==
    [clean_word |-> Unwrap(t[path]),
     start |-> toks[p + 1].offset,
     end |-> TokEnd(toks[p + Len(path)])]

\* the leftmost-longest reference extraction from token position p on
RECURSIVE LeftmostLongest(_, _, _, _)
LeftmostLongest(cs, t, toks, p) ==
    IF p >= Len(toks) THEN <<>>
    ELSE LET here == KeywordsAt(cs, t, toks, p)
         IN  IF here = {} THEN LeftmostLongest(cs, t, toks, p + 1)
             ELSE LET best == LongestOf(here)
                  IN  <<MatchOf(t, toks, p, best)>>
                        \o LeftmostLongest(cs, t, toks, p + Len(best))

\* the number of tokens that end at or before byte offset e: the 0-based
\* index of the token right after a match that ends at e
TokensUpTo(toks, e) == Cardinality({k \in 1..Len(toks) : TokEnd(toks[k]) <= e})

\* a call of next() has just returned a match
ReturnedMatch == pc = "ready" /\ ~done /\ out # <<>>

\* the extraction ran to completion
Finished == pc = "ready" /\ done

----------------------------------------------------------------------------
\* C1: the sequence extract_keywords_with_span produces is the leftmost-longest
\* reference: at each token position the longest registered keyword occurring
\* there is emitted and the scan continues after it, else at the next token.
C1_LeftmostLongest ==
    Finished => out = LeftmostLongest(case_sensitive, trie, tokens, 0)

\* C2: after next() returns a match whose last token is token j, the next
\* call begins its scan at token j + 1.
C2_ResumesAfterMatch ==
    ReturnedMatch => idx = TokensUpTo(tokens, out[Len(out)].end)

----------------------------------------------------------------------------
\* an attempt of the scan starts at token idx: next() was just entered, or
\* the walk was just reset after a dead end
AttemptStarts ==
    /\ pc = "loop"
    /\ node = Root
    /\ traversal_start_idx = idx
    /\ longest_sequence = None
    /\ idx < Len(tokens)

\* what the running call of next() returns
Reported == RunNext(case_sensitive, trie, tokens, Locals).value

ProperPrefix(a, b) == Len(a) >= 1 /\ Len(a) < Len(b) /\ SubSeq(b, 1, Len(a)) = a

\* the keyword pairs (A, B) of the trie with A's path a proper prefix of B's
\* and B's tokens in the text at token position p
NestedAt(p) ==
    {ab \in Terminals(trie) \X Terminals(trie) :
        ProperPrefix(ab[1], ab[2]) /\ OccursAt(case_sensitive, tokens, p, ab[2])}

\* the processor holds exactly the keywords ws, each with itself as clean word
KeywordsAre(ws) ==
    /\ Terminals(trie) = {PathOf(case_sensitive, w) : w \in ws}
    /\ \A w \in ws : trie[PathOf(case_sensitive, w)] = Some(w)

Match(w, s, e) == [clean_word |-> w, start |-> s, end |-> e]

HelloWorldCase == KeywordsAre({hello, hello_world}) /\ text = hello_world /\ Finished

\* C3 as stated: where an attempt starts at an occurrence of B, and A is a
\* proper prefix of B, the attempt reports B with B's span; "hello" and
\* "hello world" on "hello world" give [("hello world", 0, 11)].
C3_ReportsB ==
    /\ AttemptStarts =>
         \A ab \in NestedAt(idx) : Reported = Some(MatchOf(trie, tokens, idx, ab[2]))
    /\ HelloWorldCase => out = <<Match(hello_world, 0, 11)>>

\* C3 amended: the attempt reports the longest keyword occurring at its start,
\* which is B unless a keyword extending B occurs there too, and never A.
C3_ReportsLongest ==
    /\ AttemptStarts =>
         \A ab \in NestedAt(idx) :
            LET best == LongestOf(KeywordsAt(case_sensitive, trie, tokens, idx))
            IN  /\ Reported = Some(MatchOf(trie, tokens, idx, best))
                /\ Len(best) >= Len(ab[2])
                /\ Unwrap(Reported).end > TokEnd(tokens[idx + Len(ab[1])])
    /\ HelloWorldCase => out = <<Match(hello_world, 0, 11)>>

C3_Witness == HelloWorldCase /\ out = <<Match(hello_world, 0, 11)>>

HelloHelloWorldCase ==
    KeywordsAre({hello, world, hello_world}) /\ text = hello_hello_world /\ Finished

\* C4 as stated: keywords "hello", "world", "hello world" on "hello hello world"
\* give [("hello", 0, 5), ("hello world", 6, 18)].
C4_SpanEnds18 ==
    HelloHelloWorldCase => out = <<Match(hello, 0, 5), Match(hello_world, 6, 18)>>

\* C4 amended: the second span ends at byte 17, the length of the text.
C4_SpanEnds17 ==
    HelloHelloWorldCase => out = <<Match(hello, 0, 5), Match(hello_world, 6, 17)>>

C4_Witness == HelloHelloWorldCase /\ Len(out) = 2

----------------------------------------------------------------------------
\* C5: every match of a run has start < end <= len(text), and successive
\* matches satisfy match[i].end <= match[i+1].start, also when the empty
\* keyword was inserted.
C5_SpansOrdered ==
    \A i \in 1..Len(out) :
        /\ out[i].start < out[i].end
        /\ out[i].end <= Len(text)
        /\ i < Len(out) => out[i].end <= out[i + 1].start

C5_Witness == pc = "ready" /\ IsSome(trie[Root]) /\ Len(out) >= 2

\* C6: len() is the number of trie nodes whose clean_word is present, which is
\* the number of distinct token paths inserted, and is_empty() holds exactly
\* when len() == 0.
C6_LenCountsTerminals ==
    /\ len = Cardinality(Terminals(trie))
    /\ len = Cardinality(DOMAIN supplied)
    /\ is_empty <=> len = 0
    /\ is_empty <=> Terminals(trie) = {}

C6_Witness == pc = "idle" /\ overwrote /\ len = MaxKeywords

\* the key path of the tokens a match spans
SpanPath(cs, toks, m) ==
    LET ks == {k \in 1..Len(toks) : m.start <= toks[k].offset /\ TokEnd(toks[k]) <= m.end}
        first == CHOOSE k \in ks : \A j \in ks : k <= j
    IN  [i \in 1..Cardinality(ks) |-> Key(cs, toks[first + i - 1].token)]

\* C7: re-inserting a keyword whose path is terminal leaves len() unchanged,
\* sets its clean word to the one just supplied and leaves every other node
\* as it was; every match an extraction reports carries the clean word last
\* supplied for the keyword its span holds.
C7_LastInsertionWins ==
    /\ [][\A w \in Words : \A c \in CleanWords \cup {w} :
            LET path == PathOf(case_sensitive, w) IN
            (path \in Terminals(trie) /\ add_keyword_with_clean_word(w, c)) =>
               /\ len' = len
               /\ DOMAIN trie' = DOMAIN trie
               /\ trie'[path] = Some(c)
               /\ \A p \in DOMAIN trie \ {path} : trie'[p] = trie[p]
         ]_vars
    /\ [](\A i \in 1..Len(out) :
            LET path == SpanPath(case_sensitive, tokens, out[i])
            IN  path \in DOMAIN supplied /\ out[i].clean_word = supplied[path])

\* an extraction after a re-insertion of the only keyword reports its clean word
C7_Witness ==
    /\ pc = "ready"
    /\ overwrote
    /\ len = 1
    /\ out # <<>>
    /\ \E p \in Terminals(trie) :
          /\ SpanPath(case_sensitive, tokens, out[1]) = p
          /\ out[1].clean_word = Unwrap(trie[p])
          /\ out[1].clean_word \in CleanWords

RECURSIVE Concat(_)
Concat(seqs) == IF seqs = <<>> THEN <<>> ELSE Head(seqs) \o Concat(Tail(seqs))

\* text[e_{i-1}..s_i] for i = 1..n, and text[e_n..] for i = n + 1
Gap(s, items, i) ==
    Slice(s, IF i = 1 THEN 0 ELSE items[i - 1].end,
             IF i > Len(items) THEN Len(s) ELSE items[i].start)

\* gap 1, piece 1, gap 2, piece 2, .., gap n + 1
Interleave(s, items, piece(_)) ==
    Concat([k \in 1..(2 * Len(items) + 1) |->
              IF k % 2 = 1 THEN Gap(s, items, (k + 1) \div 2) ELSE piece(k \div 2)])

\* C8: replace_keywords(text) is the gaps of the text between the matches of
\* extract_keywords_with_span(text), in order, with each match's clean word in
\* the place of its span; gaps and spans partition the text.
C8_ReplaceIsGapsAndCleanWords ==
    pc = "replaced" =>
        LET items == ExtractAll(case_sensitive, trie, text)
            clean(i) == items[i].clean_word
            span(i) == Slice(text, items[i].start, items[i].end)
        IN  /\ Unwrap(replaced) = Interleave(text, items, clean)
            /\ text = Interleave(text, items, span)
            /\ \A i \in 1..Len(items) :
                  (IF i = 1 THEN 0 ELSE items[i - 1].end) <= items[i].start

C8_Witness ==
    /\ pc = "replaced"
    /\ Len(ExtractAll(case_sensitive, trie, text)) >= 2
    /\ Unwrap(replaced) # text

Range(f) == {f[i] : i \in DOMAIN f}

\* the keys of the tokens of the clean words, and of the keywords
CleanWordKeys ==
    UNION {{Key(case_sensitive, tok) : tok \in Range(split_word_bounds(Unwrap(trie[p])))} :
              p \in Terminals(trie)}
KeywordKeys == UNION {Range(p) : p \in Terminals(trie)}

\* C9: when no token of a clean word is a token of a keyword, extraction from
\* replace_keywords(text) yields no match.
C9_RoundTrip ==
    (pc = "replaced" /\ CleanWordKeys \cap KeywordKeys = {}) =>
        ExtractAll(case_sensitive, trie, Unwrap(replaced)) = <<>>

\* the documented instance of C9: {love -> like, Rust -> Java} turn
\* "I love Rust" into "I like Java", from which extraction yields nothing
C9_Example ==
    (/\ pc = "replaced"
     /\ text = I_love_Rust
     /\ Terminals(trie) = {PathOf(case_sensitive, love), PathOf(case_sensitive, Rust)}) =>
        /\ Unwrap(replaced) = I_like_Java
        /\ ExtractAll(case_sensitive, trie, Unwrap(replaced)) = <<>>

\* C10: inserting the empty keyword leaves the trie and len() unchanged.
C10_EmptyKeywordNoOp ==
    [][\A c \in CleanWords :
         add_keyword_with_clean_word(<<>>, c) => (trie' = trie /\ len' = len)
      ]_vars

----------------------------------------------------------------------------
\* C11: when the text is empty or the processor holds no keyword (len() == 0),
\* extract_keywords and extract_keywords_with_span yield no match and
\* replace_keywords returns the text unchanged.
C11_NothingToFind ==
    (text = <<>> \/ len = 0) =>
        /\ pc \in {"ready", "loop"} => out = <<>>
        /\ pc = "ready" => extract_keywords(case_sensitive, trie, text) = <<>>
        /\ pc = "replaced" => Unwrap(replaced) = text

C11_Witness == pc = "replaced" /\ len = 0 /\ Len(text) >= 2

----------------------------------------------------------------------------
\* the children of node n that a token equals under case folding
FoldedChildren(n, token) ==
    {c \in DOMAIN trie :
        /\ Len(c) = Len(n) + 1
        /\ SubSeq(c, 1, Len(n)) = n
        /\ FoldStr(c[Len(c)]) = FoldStr(token)}

\* a case-insensitive processor holding "Rust" has run over "i love RUST"
RustOnRUST ==
    /\ ~case_sensitive
    /\ PathOf(FALSE, Rust) \in Terminals(trie)
    /\ text = i_love_RUST
    /\ Finished

OnlyHey == len = 1 /\ Terminals(trie) = {<<hey>>}

----------------------------------------------------------------------------
\* a step of extract_keywords / extract_keywords_with_span, of the iterator
\* they return, or of replace_keywords
ReadStep ==
    \/ \E t \in Texts : extract_keywords_with_span(t)
    \/ NextCall
    \/ NextLoop
    \/ NextReturn
    \/ \E t \in Texts : replace_keywords(t)

\* C14: extract_keywords, extract_keywords_with_span, every next() step of
\* their iterator, and replace_keywords leave the processor as it was: the
\* same nodes, edges and clean words, the same len(), the same case policy.
C14_ReadOnly ==
    [][(pc # "idle" \/ pc' # "idle" \/ ReadStep) =>
          /\ DOMAIN trie' = DOMAIN trie
          /\ \A n \in DOMAIN trie : trie'[n] = trie[n]
          /\ len' = len
          /\ case_sensitive' = case_sensitive
      ]_vars

\* an extraction from a processor with two keywords has run to completion
\* and reported a match
C14_Witness == Finished /\ len >= 2 /\ Len(out) >= 1 /\ idx = Len(tokens)

----------------------------------------------------------------------------
IsPrefixOf(a, b) == Len(a) <= Len(b) /\ SubSeq(b, 1, Len(a)) = a

\* C15: with the next() steps of two extractors over one trie interleaved in
\* any order, and no insertion meanwhile, each extractor yields the matches
\* it yields when run alone on its text, in the same order.
C15_Independent ==
    /\ pc \in {"ready", "loop"} =>
          LET alone == ExtractAll(case_sensitive, trie, text)
          IN  IsPrefixOf(out, alone) /\ (done => out = alone)
    /\ other.pc \in {"ready", "loop"} =>
          LET alone == ExtractAll(case_sensitive, trie, other.text)
          IN  IsPrefixOf(other.out, alone) /\ (other.done => other.out = alone)

\* both extractors have finished, on different texts, with different matches
C15_Witness ==
    /\ Finished
    /\ other.pc = "ready"
    /\ other.done
    /\ text # other.text
    /\ out # <<>>
    /\ other.out # <<>>
    /\ out # other.out

----------------------------------------------------------------------------
\* C16: every call of next() returns, whatever backtracking it does, and an
\* extraction over n tokens yields at most n matches (size_hint's upper bound).
C16_Terminates ==
    /\ (pc = "loop") ~> (pc = "ready")
    /\ [](pc \in {"ready", "loop"} =>
             /\ size_hint[1] <= Len(out)
             /\ Len(out) <= Unwrap(size_hint[2])
             /\ Unwrap(size_hint[2]) = Len(split_word_bounds(text)))

\* a run has completed with as many matches as its text has tokens
C16_Witness ==
    /\ Finished
    /\ Len(tokens) >= 2
    /\ Len(out) = Len(tokens)

----------------------------------------------------------------------------
\* the processor kp after the single-keyword insertion of each pair of the
\* sequence, in order
RECURSIVE AfterEach(_, _)
AfterEach(kp, pairs) ==
    IF pairs = <<>> THEN kp
    ELSE LET n == Len(pairs)
             before == AfterEach(kp, SubSeq(pairs, 1, n - 1))
             path == PathOf(case_sensitive, pairs[n][1])
         IN  [before EXCEPT
                !.trie = InsertedTrie(before.trie, path, pairs[n][2]),
                !.len = InsertedLen(before.trie, before.len, path)]

SameProcessor(kp) == trie' = kp.trie /\ len' = kp.len

Twice(ws) == [i \in 1..Len(ws) |-> <<ws[i], ws[i]>>]

\* C17: add_keyword(word) leaves the processor as add_keyword_with_clean_word(word,
\* word) does, and add_keywords_from_iter / add_keywords_with_clean_word_from_iter
\* leave it as the single-keyword insertion of each element, in iteration order.
C17_BulkIsEachInOrder ==
    /\ [][
           /\ \A w \in Words :
                 add_keyword(w) => SameProcessor(AfterEach(Processor, <<<<w, w>>>>))
           /\ inserted_by' = "add_keywords_from_iter" =>
                 \E ws \in WordLists : SameProcessor(AfterEach(Processor, Twice(ws)))
           /\ inserted_by' = "add_keywords_with_clean_word_from_iter" =>
                 \E ps \in PairLists : SameProcessor(AfterEach(Processor, ps))
          ]_vars
    /\ [](Idle =>
            /\ \A ws \in WordLists :
                  LET kp == ForEachWord(case_sensitive, Processor, ws, 1)
                      each == AfterEach(Processor, Twice(ws))
                  IN  kp.trie = each.trie /\ kp.len = each.len
            /\ \A ps \in PairLists :
                  LET kp == ForEachPair(case_sensitive, Processor, ps, 1)
                      each == AfterEach(Processor, ps)
                  IN  kp.trie = each.trie /\ kp.len = each.len)

\* a bulk insertion of pairs has overwritten a clean word and filled the processor
C17_Witness ==
    /\ inserted_by = "add_keywords_with_clean_word_from_iter"
    /\ overwrote
    /\ len = MaxKeywords

----------------------------------------------------------------------------
\* the token at idx has no child under the current node and the attempt has
\* seen no terminal node
DeadEnd ==
    /\ pc = "loop"
    /\ idx < Len(tokens)
    /\ longest_sequence = None
    /\ ~HasChild(trie, node, Key(case_sensitive, tokens[idx + 1].token))

\* the matches the run yields from the current position of next() on
Remaining ==
    LET r == RunNext(case_sensitive, trie, tokens, Locals)
    IN  IF IsSome(r.value)
        THEN <<Unwrap(r.value)>> \o Collect(case_sensitive, trie, tokens, r.idx)
        ELSE <<>>

\* token p (counted from 0) lies within the span of one of the items
Covered(items, p) ==
    \E i \in 1..Len(items) :
        items[i].start <= tokens[p + 1].offset /\ tokens[p + 1].offset < items[i].end

\* the restart itself: from a dead end of the attempt begun at token s, the
\* next iteration starts at token s + 1 from the root
C18_RestartStep ==
    [][(DeadEnd /\ NextLoop) =>
          /\ pc' = "loop"
          /\ idx' = traversal_start_idx + 1
          /\ traversal_start_idx' = traversal_start_idx + 1
          /\ node' = Root
          /\ longest_sequence' = None
          /\ out' = out
      ]_vars

\* C18: at a dead end of an attempt begun at token s the scan restarts at
\* token s + 1 from the root, so a keyword occurrence that starts at a token
\* of the failed chain (s + 1 up to the token that had no child) is still
\* found: the run goes on to report a match that holds that token.
C18_DeadEndRestart ==
    /\ C18_RestartStep
    /\ [](DeadEnd =>
            \A p \in (traversal_start_idx + 1)..idx :
                KeywordsAt(case_sensitive, trie, tokens, p) # {} => Covered(Remaining, p))

\* the documented instance of C18: "hello world" on "hello hello world"
C18_Example ==
    (KeywordsAre({hello_world}) /\ text = hello_hello_world /\ Finished) =>
        out = <<Match(hello_world, 6, 17)>>

----------------------------------------------------------------------------
\* C19: every match (w, start, end) a case-sensitive processor reports starts
\* at the byte offset of a token and ends at the byte end of a token, the
\* tokens of text[start..end] are the token path of a registered keyword, and
\* w is the clean word that keyword has.
C19_SpanFidelity ==
    case_sensitive =>
        \A i \in 1..Len(out) :
            LET m == out[i]
                path == split_word_bounds(Slice(text, m.start, m.end))
            IN  /\ \E k \in 1..Len(tokens) : tokens[k].offset = m.start
                /\ \E k \in 1..Len(tokens) : TokEnd(tokens[k]) = m.end
                /\ path # <<>>
                /\ path \in Terminals(trie)
                /\ m.clean_word = Unwrap(trie[path])
                /\ m.clean_word = supplied[path]

\* a case-sensitive processor has reported a keyword of several tokens that
\* starts inside the text
C19_Witness ==
    /\ case_sensitive
    /\ Finished
    /\ \E i \in 1..Len(out) :
          /\ out[i].start > 0
          /\ Len(split_word_bounds(Slice(text, out[i].start, out[i].end))) >= 2

----------------------------------------------------------------------------
\* a call of next() returns to its caller
Returns == pc = "loop" /\ pc' = "ready"

\* C20: a call of next() returns no match only with idx at the number of
\* tokens, and after a call has returned no match every later call on the
\* same extractor returns no match.
C20_CompletionIsFinal ==
    /\ [][(Returns /\ out' = out) => (done' /\ idx' = Len(tokens))]_vars
    /\ [][(Returns /\ done) => (out' = out /\ done' /\ idx' = Len(tokens))]_vars
    /\ [](Finished => idx = Len(tokens))

\* a call is running on an extractor that has reported matches and then
\* returned no match
C20_Witness ==
    /\ pc = "loop"
    /\ done
    /\ out # <<>>
    /\ idx = Len(tokens)

----------------------------------------------------------------------------
\* the token paths of the keywords inserted so far
InsertedPaths == DOMAIN supplied

\* C21: a node has a clean_word exactly when its path from the root is the
\* token path of an inserted keyword; a node that is only a proper prefix of
\* inserted keywords has none; every node and clean_word an insertion made
\* is still there.
C21_TerminalIffInserted ==
    /\ \A n \in DOMAIN trie : IsSome(trie[n]) <=> n \in InsertedPaths
    /\ \A p \in InsertedPaths : Prefixes(p) \subseteq DOMAIN trie /\ IsSome(trie[p])
    /\ \A n \in DOMAIN trie :
          n = Root \/ \E p \in InsertedPaths : n \in Prefixes(p)
    /\ \A n \in DOMAIN trie :
          ((\E p \in InsertedPaths : n \in Prefixes(p) /\ n # p) /\ n \notin InsertedPaths)
             => trie[n] = None

\* after a re-insertion the trie holds two keywords and an inner node that
\* is only a prefix of one of them
C21_Witness ==
    /\ pc = "idle"
    /\ overwrote
    /\ len = 2
    /\ \E n \in DOMAIN trie : n # Root /\ trie[n] = None

----------------------------------------------------------------------------
\* C22: during every call of next() 0 <= traversal_start_idx <= idx <=
\* len(tokens), and the indexing and the `idx -= 1` of an iteration stay in
\* range; a call returns with idx no smaller than it found it, larger when it
\* returns a match; no later call scans a token up to the end of a match
\* already emitted.
C22_ScanPosition ==
    /\ pc = "loop" =>
          /\ 0 <= call_idx
          /\ call_idx <= traversal_start_idx
          /\ traversal_start_idx <= idx
          /\ idx <= Len(tokens)
    /\ (pc = "loop" /\ idx < Len(tokens)) =>
          LET s == LoopBody(case_sensitive, trie, tokens, Locals)
          IN  /\ idx + 1 \in DOMAIN tokens
              /\ IsSome(s.longest_sequence) => traversal_start_idx + 1 \in DOMAIN tokens
              /\ 0 <= s.idx /\ s.idx <= Len(tokens)
              /\ s.traversal_start_idx <= s.idx
    /\ pc = "ready" => (call_idx <= idx /\ idx <= Len(tokens))
    /\ ReturnedMatch => call_idx < idx
    /\ (pc \in {"ready", "loop"} /\ out # <<>>) =>
          /\ TokensUpTo(tokens, out[Len(out)].end) <= idx
          /\ pc = "loop" => TokensUpTo(tokens, out[Len(out)].end) <= traversal_start_idx

\* a call that restarted after a dead end has returned a match from inside
\* its loop, with tokens left to scan
C22_Witness ==
    /\ ReturnedMatch
    /\ call_idx < TokensUpTo(tokens, out[Len(out)].start)
    /\ idx < Len(tokens)

----------------------------------------------------------------------------
\* every keyword of the processor has itself as clean word: the clean word
\* is the concatenation of the tokens on the keyword's path
SelfClean == \A p \in Terminals(trie) : Unwrap(trie[p]) = Concat(p)

\* C23: in a case-sensitive processor whose keywords all have themselves as
\* clean word, replace_keywords(text) is text, for every text.
C23_ReplaceIsIdentity ==
    (pc = "replaced" /\ case_sensitive /\ SelfClean) => Unwrap(replaced) = text

\* such a processor, with two keywords, has replaced two matches
C23_Witness ==
    /\ pc = "replaced"
    /\ case_sensitive
    /\ SelfClean
    /\ len = 2
    /\ Len(ExtractAll(case_sensitive, trie, text)) >= 2

----------------------------------------------------------------------------
\* the (word, clean_word) pairs the casing examples insert
CaseInsertions == {<<w, w>> : w \in CaseWords} \cup CasePairs

\* the processor kp after the insertion of the pair e
AddedPair(kp, e) == Added(case_sensitive, kp, e[1], e[2])

SameTrieAndLen(a, b) == a.trie = b.trie /\ a.len = b.len

\* extraction from every text gives the same matches with either processor
SameExtraction(a, b) ==
    \A t \in CaseTexts :
        ExtractAll(case_sensitive, a.trie, t) = ExtractAll(case_sensitive, b.trie, t)

\* inserting a pair twice is inserting it once
Idempotent ==
    \A e \in CaseInsertions :
        SameTrieAndLen(AddedPair(AddedPair(Processor, e), e), AddedPair(Processor, e))

====
